---- MODULE Spec2Model ----
(***************************************************************************)
(* ProductFetcher.fetch_trending_products (src/src/product_fetcher.py):    *)
(* the strategy selector and its three strategies, the official API        *)
(* client, the two browser-driven scrapers and the demo-data generator.    *)
(*                                                                         *)
(* Units.  Python floats are modelled by exact integers:                   *)
(*   price              cents              (10.0 USD      = 1000)          *)
(*   commission_rate    1/100 of a percent (10.0 percent  = 1000)          *)
(*   rating             tenths             (4.5           = 45)            *)
(*   commission_amount  1/1000000 USD      (1 cent        = 10000)         *)
(*   sales_count        units                                              *)
(* The raw draws of the demo generator are finer (see DemoDraws).          *)
(***************************************************************************)
EXTENDS Integers, Sequences, FiniteSets, TLC

VARIABLES
    pc,              \* position of the one fetch_trending_products call
    limit,           \* argument limit
    use_scraping,    \* argument use_scraping
    callback,        \* argument on_product_found: "none" (None) or "given"
    credentials,     \* self.credentials['tiktok_shop_api']
    filters,         \* self.filters
    products,        \* the local list `products` of the running scraper
    episode,         \* index of the query / URL the running scraper is at
    manual_navigation_allowed,  \* local flag of _fetch_via_scraping
    browserOpen,     \* a launched browser that browser.close() has not closed
    result,          \* the list the call returned
    apiReturned,     \* what _fetch_via_api returned to the selector
    reported,        \* every product passed to on_product_found, in call order
    cbRaised,        \* some invocation of on_product_found raised
    candidates,      \* products the browser scrapers extracted from pages
    apiRequests,     \* session.get calls issued
    browserLaunches, \* chromium.launch calls that succeeded
    demoRuns,        \* calls of _generate_demo_products
    apiOutcome,      \* how the API request ended: "none" before it, "failed"
                     \* (exception or non-zero code) or "ok"
    autoRuns,        \* calls of _fetch_highest_bought_auto
    gathered,        \* every candidate the extractors made from visited pages
    operatorNavigated,  \* page.url changed during a manual navigation window
    fallbackRuns,    \* video searches of the fallback of _fetch_via_scraping
    visit,           \* the pass of a scraper's loop made last: what the
                     \* navigation met and what the pass did
    videoPages,      \* the most video pages open together in the session
    threads,         \* dashboard: the acquisition threads fetch_products started
    fetched_count,   \* dashboard: self.fetched_count
    after_queue,     \* dashboard: callbacks scheduled with root.after
    work,            \* dashboard: the consumer's work done per reported
                     \* product, with the thread that did it
    rows,            \* database: the products table
    putCalls,        \* database: calls of add_product
    putResult,       \* database: the last add_product call and how it ended
    strategy,        \* position of one _extract_products_from_page call
    snapshot,        \* its page
    page_limit,      \* its argument limit
    page_products,   \* its local list `products`
    outcomes,        \* how each of its strategies ended
    unique_products, \* its local list unique_products, cut to the limit
    count_text,      \* a count text to be normalized
    via,             \* the function that normalized it
    parsed_count     \* the sales_count it gave

vars == << pc, limit, use_scraping, callback, credentials, filters, products,
           episode, manual_navigation_allowed, browserOpen, result,
           apiReturned, reported, cbRaised, candidates, apiRequests,
           browserLaunches, demoRuns, apiOutcome, autoRuns, gathered,
           operatorNavigated, fallbackRuns, visit, videoPages, threads,
           fetched_count, after_queue, work, rows, putCalls, putResult,
           strategy, snapshot, page_limit, page_products, outcomes,
           unique_products, count_text, via, parsed_count >>

\* the state of one _extract_products_from_page call
extraction == << strategy, snapshot, page_limit, page_products, outcomes,
                 unique_products >>

\* the state of one normalization of a count text
counting == << count_text, via, parsed_count >>

\* the state of the dashboard and of its database
dashboard == << threads, fetched_count, after_queue, work, rows, putCalls,
                putResult >>

\* the state of one fetch_trending_products call
fetcher == << pc, limit, use_scraping, callback, credentials, filters, products,
              episode, manual_navigation_allowed, browserOpen, result,
              apiReturned, reported, cbRaised, candidates, apiRequests,
              browserLaunches, demoRuns, apiOutcome, autoRuns, gathered,
              operatorNavigated, fallbackRuns, visit, videoPages >>

----------------------------------------------------------------------------
(* Bounds of the model                                                     *)

MaxLimit == 2
MaxItems == 3
MaxClicks == 2
MaxReports == 2
MaxPuts == 2

(* Program constants                                                       *)

DefaultLimit == 20
NumProductNames == 10
DefaultMinPrice == 0
DefaultMaxPrice == 100000
DefaultMinCommissionRate == 0
DefaultMinRating == 0
DemoPriceLow == 15000
DemoPriceHigh == 150000
DemoRateLow == 800
DemoRateHigh == 2500
DemoRatingLow == 400
DemoRatingHigh == 500
MaxVideoLinks == 20
PesoThreshold == 10000
PesoPerDollar == 56
AutoDefaultPrice == 1000
AutoCommissionRate == 1000
AutoRating == 45
AutoSalesCount == 100
ScrapeCommissionRate == 1000
ScrapeRating == 40
MinProductIdLen == 5
NumSearchQueries == 3
NumShopUrls == 4
ScrollCycles == 5
FallbackScrolls == 3
LoginWait == 30
NavigationWait == 15
MaxVideoVisits == 10

----------------------------------------------------------------------------
(* Arithmetic helpers                                                      *)

Min(a, b) == IF a < b THEN a ELSE b

\* round(a / b) to the nearest integer, ties to the even one, as Python's
\* round() does; a >= 0, b > 0.
RoundDiv(a, b) ==
    LET q == a \div b
        r == a % b
    IN  IF 2 * r < b THEN q
        ELSE IF 2 * r > b THEN q + 1
        ELSE IF q % 2 = 0 THEN q ELSE q + 1

\* s[:n] for n >= 0
Take(s, n) == SubSeq(s, 1, Min(n, Len(s)))

Range(s) == { s[i] : i \in 1..Len(s) }

----------------------------------------------------------------------------
(* Inputs of the call                                                      *)

\* limit: small values and the default of the signature (limit: int = 20),
\* which is also what the dashboard and main.py pass.
Limits == (0..MaxLimit) \cup {DefaultLimit}

\* self.credentials['tiktok_shop_api']: the three keys, "" when not set.
AllCredentials == [app_key |-> "key", app_secret |-> "secret", access_token |-> "token"]
NoCredentials == [app_key |-> "", app_secret |-> "", access_token |-> ""]
NoTokenCredentials == [app_key |-> "key", app_secret |-> "secret", access_token |-> ""]
CredentialSets == {AllCredentials, NoCredentials, NoTokenCredentials}

\* self.filters: config.settings.PRODUCT_FILTERS, the filters of the
\* module's own example, and a dict whose categories list is empty.
SettingsFilters ==
    [min_commission_rate |-> 800, min_price |-> 200, max_price |-> 3000,
     min_rating |-> 40,
     categories |-> << "Beauty", "Skincare", "Fashion", "Accessories",
                       "Home", "Lifestyle", "Electronics", "Fitness" >>]
ExampleFilters ==
    [min_commission_rate |-> 1000, min_price |-> 1000, max_price |-> 20000,
     min_rating |-> 40,
     categories |-> << "Electronics", "Beauty", "Fashion" >>]
NoCategoryFilters ==
    [min_price |-> 200, max_price |-> 3000, categories |-> << >>]
FilterSets == {SettingsFilters, ExampleFilters, NoCategoryFilters}

\* dict.get(key, default)
Get(d, key, default) == IF key \in DOMAIN d THEN d[key] ELSE default

----------------------------------------------------------------------------
(* _has_api_credentials, _meets_criteria                                   *)

\* a test of the app key alone
HasAppKey(c) == c.app_key # ""

HasApiCredentials(c) ==
    c.app_key # "" /\ c.app_secret # "" /\ c.access_token # ""

MeetsCriteria(f, price, commission_rate, rating) ==
    /\ ~ (price < Get(f, "min_price", DefaultMinPrice))
    /\ ~ (price > Get(f, "max_price", DefaultMaxPrice))
    /\ ~ (commission_rate < Get(f, "min_commission_rate", DefaultMinCommissionRate))
    /\ ~ (rating < Get(f, "min_rating", DefaultMinRating))

\* p.get('sales_count', 0), the sort key of _sort_by_sales
SalesCount(p) == Get(p, "sales_count", 0)

\* _meets_criteria on a product dict, as the scrapers call it
ProductMeetsCriteria(f, p) ==
    MeetsCriteria(f, Get(p, "price", 0), Get(p, "commission_rate", 0), Get(p, "rating", 0))

----------------------------------------------------------------------------
(* Products.  A product is a record (a Python dict) with the fields the    *)
(* strategies fill in; name, description, category, image and links are    *)
(* not carried.  Products made by the API client and the demo generator    *)
(* have no sales_count key.  The field seq is not part of the dict: it is  *)
(* the position at which the product entered the list it was collected     *)
(* in (its discovery order), kept so that the order of equal-sales         *)
(* products can be observed after sorting.                                 *)

\* list.extend seen through seq: element i of `more` enters at base + i
Tag(more, base) ==
    [ i \in 1..Len(more) |-> more[i] @@ ("seq" :> base + i) ]

Untag(p) == [ k \in DOMAIN p \ {"seq"} |-> p[k] ]

\* how often product p occurs in the sequence s
Count(p, s) == Cardinality({ i \in 1..Len(s) : s[i] = p })

----------------------------------------------------------------------------
(* _fetch_via_api and _parse_api_products                                  *)

\* Items the API may answer with.  An item whose images list is empty makes
\* item.get('images', [{}])[0] raise IndexError.  ApiItemB costs 19.99 at
\* 12.5 percent, ApiItemOverrated carries a rating of 7.0.
ApiItemA == [product_id |-> "1000001", price |-> 1000, commission_rate |-> 1000, rating |-> 45]
ApiItemB == [product_id |-> "1000002", price |-> 1999, commission_rate |-> 1250, rating |-> 48]
ApiItemOverrated == [product_id |-> "1000005", price |-> 1200, commission_rate |-> 1000, rating |-> 70]
ApiItemPricey == [product_id |-> "1000003", price |-> 50000, commission_rate |-> 1000, rating |-> 45]
ApiItemNoImage == [product_id |-> "1000004", price |-> 1500, commission_rate |-> 1000, rating |-> 45,
                   images |-> << >>]
ApiItems == {ApiItemA, ApiItemB, ApiItemPricey, ApiItemNoImage, ApiItemOverrated}

ApiItemSeqs == UNION { [1..n -> ApiItems] : n \in 0..MaxItems }

\* how an API request can fail: session.get raises (connection error,
\* timeout), raise_for_status raises, or the answer's code is not 0
ApiFailures == {"transport_error", "http_error", "code_nonzero"}

\* what session.get / raise_for_status / response.json() can give
ApiResponses ==
    { [kind |-> k, items |-> << >>] : k \in ApiFailures }
    \cup { [kind |-> "ok", items |-> s] : s \in ApiItemSeqs }

ApiProduct(item) ==
    [product_id |-> item.product_id,
     price |-> Get(item, "price", 0),
     commission_rate |-> Get(item, "commission_rate", 0),
     commission_amount |-> Get(item, "price", 0) * Get(item, "commission_rate", 0),
     rating |-> Get(item, "rating", 0)]

ApiItemRaises(item) == "images" \in DOMAIN item /\ item.images = << >>

RECURSIVE ParseApiProducts(_, _)
\* [raised, products]: raised when building some accepted item's dict raises
ParseApiProducts(raw_products, f) ==
    IF raw_products = << >> THEN [raised |-> FALSE, products |-> << >>]
    ELSE LET item == Head(raw_products)
             rest == ParseApiProducts(Tail(raw_products), f)
         IN  IF ~ MeetsCriteria(f, Get(item, "price", 0),
                                Get(item, "commission_rate", 0),
                                Get(item, "rating", 0))
             THEN rest
             ELSE IF ApiItemRaises(item)
             THEN [raised |-> TRUE, products |-> << >>]
             ELSE [raised |-> rest.raised,
                   products |-> IF rest.raised THEN << >>
                                ELSE << ApiProduct(item) >> \o rest.products]

\* the list _fetch_via_api returns for a response; every exception of the
\* try block, the parser's included, gives []
FetchViaApiResult(response, f) ==
    IF response.kind = "ok"
    THEN LET parsed == ParseApiProducts(response.items, f)
         IN  IF parsed.raised THEN << >> ELSE parsed.products
    ELSE << >>

----------------------------------------------------------------------------
(* _generate_demo_products                                                 *)

\* What one iteration draws: random.uniform(15, 150) in 1/1000 USD,
\* random.uniform(8, 25) in 1/100 percent, random.uniform(4.0, 5.0) in
\* 1/100.  The two ends of each range.
DemoDraws ==
    { [price |-> DemoPriceLow, commission_rate |-> DemoRateLow, rating |-> DemoRatingLow],
      [price |-> DemoPriceHigh, commission_rate |-> DemoRateHigh, rating |-> DemoRatingHigh] }

\* f'{n:04d}'
Pad4(s) == IF Len(s) >= 4 THEN s ELSE SubSeq("0000", 1, 4 - Len(s)) \o s

\* f'DEMO_{i+1:04d}' for the loop index i (0-based)
DemoId(i) == "DEMO_" \o Pad4(ToString(i + 1))

DemoProduct(i, draw) ==
    [product_id |-> DemoId(i),
     price |-> RoundDiv(draw.price, 10),
     commission_rate |-> draw.commission_rate,
     commission_amount |-> RoundDiv(draw.price * draw.commission_rate, 100000) * 10000,
     rating |-> RoundDiv(draw.rating, 10)]

\* range(min(limit, len(product_names)))
DemoCount(lim) == IF Min(lim, NumProductNames) < 0 THEN 0 ELSE Min(lim, NumProductNames)

\* random.choice(categories) raises IndexError on an empty list; it is
\* evaluated while the first product dict is built
DemoRaises(lim, f) ==
    DemoCount(lim) > 0
    /\ Get(f, "categories", << "Electronics", "Beauty", "Fashion" >>) = << >>

DemoProducts(draws) == [ i \in 1..Len(draws) |-> DemoProduct(i - 1, draws[i]) ]

\* The draws of n iterations: every iteration the same draw, or the draws
\* taking turns (so that every iteration meets every draw, and every two
\* neighbours every pair of draws).
DemoDrawSeqs(n) ==
    { [ i \in 1..n |-> d ] : d \in DemoDraws }
    \cup { [ i \in 1..n |-> IF i % 2 = 1 THEN d ELSE e ] : d, e \in DemoDraws }

----------------------------------------------------------------------------
(* _sort_by_sales                                                          *)

RECURSIVE InsertBySalesAscending(_, _)
\* the insertion step of a sort without reverse=True
InsertBySalesAscending(sorted, p) ==
    IF sorted = << >> THEN << p >>
    ELSE IF SalesCount(Head(sorted)) <= SalesCount(p)
         THEN << Head(sorted) >> \o InsertBySalesAscending(Tail(sorted), p)
         ELSE << p >> \o sorted

RECURSIVE InsertBySales(_, _)
\* p goes behind every element whose key is not smaller: sorted(...,
\* reverse=True) keeps the original order of elements with equal keys
InsertBySales(sorted, p) ==
    IF sorted = << >> THEN << p >>
    ELSE IF SalesCount(Head(sorted)) >= SalesCount(p)
         THEN << Head(sorted) >> \o InsertBySales(Tail(sorted), p)
         ELSE << p >> \o sorted

RECURSIVE SortBySales(_)
\* sorted(products, key=..., reverse=True): the elements inserted one by
\* one, in their order, into the sorted list of those before them
SortBySales(s) ==
    IF s = << >> THEN << >>
    ELSE CHOOSE sorted \in { InsertBySales(before, s[Len(s)]) :
                                before \in {SortBySales(SubSeq(s, 1, Len(s) - 1))} } : TRUE

----------------------------------------------------------------------------
(* _fetch_highest_bought_auto: the search pages and what is extracted      *)

\* product_id = f"AUTO_{abs(hash(video_url)) % 100000}": one id per URL
\* within a call
AutoId(video_url) == "AUTO_" \o video_url

\* The text around a video link, by what the code reads from it: whether
\* it holds one of the product words, and the amount behind PHP, the peso
\* sign or $ (in cents, -1 when there is none).
TextPlain == [keyword |-> FALSE, price |-> -1]
TextShop == [keyword |-> TRUE, price |-> -1]
TextOneDollar == [keyword |-> TRUE, price |-> 100]
TextFiftyDollars == [keyword |-> TRUE, price |-> 5000]
TextPesos == [keyword |-> TRUE, price |-> 112000]

\* a[href*="/video/"] elements; href "" stands for get_attribute -> None
LinkA == [href |-> "/video/1", text |-> TextShop]
LinkB == [href |-> "/video/2", text |-> TextFiftyDollars]
LinkPeso == [href |-> "/video/2", text |-> TextPesos]
LinkCheap == [href |-> "/video/3", text |-> TextOneDollar]
LinkPlain == [href |-> "/video/1", text |-> TextPlain]
LinkNoHref == [href |-> "", text |-> TextShop]

\* what page.query_selector_all('a[href*="/video/"]') can find on a search
\* result page
SearchPages ==
    { << >>,
      << LinkA >>,
      << LinkNoHref, LinkPlain, LinkB >>,
      << LinkA, LinkPeso >>,
      << LinkCheap, LinkA, LinkA >>,
      << LinkPlain, LinkPlain, LinkPlain, LinkA >> }

\* _extract_product_from_video_link
ExtractProductFromVideoLink(video_url, text) ==
    LET peso == text.price > PesoThreshold
        price == IF text.price < 0 THEN AutoDefaultPrice
                 ELSE IF peso THEN RoundDiv(text.price, PesoPerDollar)
                 ELSE text.price
        tenth == IF text.price < 0 THEN RoundDiv(AutoDefaultPrice, 10)
                 ELSE IF peso THEN RoundDiv(text.price, PesoPerDollar * 10)
                 ELSE RoundDiv(text.price, 10)
    IN  [product_id |-> AutoId(video_url),
         price |-> price,
         commission_rate |-> AutoCommissionRate,
         commission_amount |-> tenth * 10000,
         rating |-> AutoRating,
         sales_count |-> AutoSalesCount]

\* a search page loop without the filter test: every candidate is added
AddsEveryCandidate(f, product) == TRUE

\* the test between the callback and products.append in
\* _extract_products_from_search_page
AddsToResults(f, product) == ProductMeetsCriteria(f, product)

\* How the caller's on_product_found behaves: it never raises, its first
\* invocation in a loop raises, or every invocation raises.
CallbackModes == {"never", "first", "always"}

\* whether the invocation behind n earlier ones raises
CallbackRaises(mode, n) == mode = "always" \/ (mode = "first" /\ n = 0)

\* a loop whose callback is not guarded: the exception reaches the handler
\* around the link, which goes on with the next link
AfterCallbackUnguarded(raised) == IF raised THEN "next_link" ELSE "filter"

\* try: on_product_found(product) / except Exception: logger.error: the
\* filter test follows the callback, raised or not
AfterCallback(raised) == "filter"

RECURSIVE SearchPageLoop(_, _, _, _, _, _)
\* the loop over video_links[:min(20, limit * 3)]: acc is the local list
\* products, called the products handed to on_product_found so far, mode
\* how the callback behaves
SearchPageLoop(video_links, lim, f, acc, called, mode) ==
    IF video_links = << >> \/ Len(acc) >= lim
    THEN [products |-> acc, called |-> called]
    ELSE LET link == Head(video_links)
         IN  IF link.href = "" \/ ~ link.text.keyword
             THEN SearchPageLoop(Tail(video_links), lim, f, acc, called, mode)
             ELSE LET product == ExtractProductFromVideoLink(link.href, link.text)
                      raised == CallbackRaises(mode, Len(called))
                  IN  SearchPageLoop(Tail(video_links), lim, f,
                                     IF AfterCallback(raised) = "filter"
                                        /\ AddsToResults(f, product)
                                     THEN Append(acc, product) ELSE acc,
                                     Append(called, product), mode)

\* _extract_products_from_search_page(page, limit, on_product_found):
\* [products, called]; lim >= 0
ExtractProductsFromSearchPage(video_links, lim, f, mode) ==
    LET r == SearchPageLoop(Take(video_links, Min(MaxVideoLinks, lim * 3)),
                            lim, f, << >>, << >>, mode)
    IN  [products |-> Take(r.products, lim), called |-> r.called]

----------------------------------------------------------------------------
(* _fetch_via_scraping: the pages and the three extraction techniques      *)

\* A count text such as "500", "12K" or "1.5M": the digits before the
\* point, the one digit behind it (-1 when there is no point) and the
\* suffix.
CountText(whole, frac, suffix) == [whole |-> whole, frac |-> frac, suffix |-> suffix]

NoCount == CountText(-1, -1, "")

\* The count texts below 31 with one digit behind the point whose double,
\* times the double of the suffix, lies below the decimal product:
\* float("4.1") * 1000000 is 4099999.9999999995.
ProductFallsShort ==
    { CountText(4, 1, "M"), CountText(4, 1, "B"), CountText(8, 2, "M"),
      CountText(8, 2, "B"), CountText(16, 4, "M"), CountText(16, 4, "B"),
      CountText(16, 9, "B") }

\* _parse_count: int(float(text without its suffix) * 1000 ** k); int()
\* cuts the fraction of the product off
ParseCount(t) ==
    IF t.whole < 0 THEN 0
    ELSE LET tenths == t.whole * 10 + (IF t.frac < 0 THEN 0 ELSE t.frac)
             cut == IF t \in ProductFallsShort THEN 1 ELSE 0
         IN  CASE t.suffix = "K" -> tenths * 100 - cut
               [] t.suffix = "M" -> tenths * 100000 - cut
               [] t.suffix = "B" -> tenths * 100000000 - cut
               [] OTHER -> t.whole

\* what (\d+[KMB]?)\s*(?:sold|sales|bought|purchases) captures of a count
\* text followed by such a word: \d+ does not cross the point, so the
\* match starts behind it
SalesPatternCapture(t) ==
    IF t.frac < 0 THEN t ELSE CountText(t.frac, -1, t.suffix)

\* Objects found in the embedded JSON: price in 1/1000 USD, rating in
\* 1/100, commissionRate in 1/100 percent, salesCount a number, sold a
\* count text.
JsonA == [productId |-> "1000001", price |-> 15000, salesCount |-> 500, rating |-> 450]
JsonB == [productId |-> "1000002", price |-> 25004, sold |-> CountText(0, 5, "K"),
          rating |-> 416, commissionRate |-> 1200]
JsonPricey == [productId |-> "1000003", price |-> 500000, salesCount |-> 900, rating |-> 450]
JsonNoId == [name |-> "banner", price |-> 15000]

\* Elements matched by the first product selector that matches anything:
\* the id in the element's /shop/product/ link ("" when it has no such
\* link) and the first number of its text, in cents.
ElemA == [product_id |-> "1000001", price |-> 1400]
ElemD == [product_id |-> "1000004", price |-> 1000]
ElemNoLink == [product_id |-> "", price |-> 1000]

\* a[href*="/shop/product/"] links: the id behind /shop/product/, the
\* first number of the surrounding text in cents, the count text in front
\* of sold / sales / bought (NoCount when there is none).
ShopLinkE == [product_id |-> "1000005", price |-> 1200, sales |-> CountText(12, 5, "K")]
ShopLinkD == [product_id |-> "1000004", price |-> 1100, sales |-> CountText(300, -1, "")]
ShopLinkShort == [product_id |-> "42", price |-> 1200, sales |-> NoCount]

\* what a loaded shop page can hold
PageEmpty == [json |-> << >>, dom |-> << >>, links |-> << >>]
PageCards == [json |-> << JsonA, JsonNoId >>, dom |-> << ElemA, ElemNoLink, ElemD >>,
              links |-> << ShopLinkShort, ShopLinkD >>]
PageMixed == [json |-> << JsonB, JsonPricey >>, dom |-> << >>, links |-> << ShopLinkE >>]
ShopPages == {PageEmpty, PageCards, PageMixed}

\* a page whose embedded JSON lists another product in front of the one
\* its cards show
PageShifted == [json |-> << JsonB, JsonA >>, dom |-> << ElemA >>, links |-> << >>]

\* _json_to_product: << >> for None
JsonToProduct(obj) ==
    IF Get(obj, "productId", "") = "" THEN << >>
    ELSE LET price == Get(obj, "price", 0)
             commission_rate == Get(obj, "commissionRate", ScrapeCommissionRate)
             sales_count == IF Get(obj, "salesCount", 0) # 0 THEN obj.salesCount
                            ELSE IF "sold" \in DOMAIN obj THEN ParseCount(obj.sold)
                            ELSE 0
         IN  << [product_id |-> obj.productId,
                 price |-> RoundDiv(price, 10),
                 commission_rate |-> commission_rate,
                 commission_amount |-> RoundDiv(price * commission_rate, 100000) * 10000,
                 rating |-> RoundDiv(Get(obj, "rating", 0), 10),
                 sales_count |-> sales_count] >>

\* _parse_product_element: << >> for None
ParseProductElement(elem) ==
    IF elem.product_id = "" THEN << >>
    ELSE << [product_id |-> elem.product_id,
             price |-> elem.price,
             commission_rate |-> ScrapeCommissionRate,
             commission_amount |-> RoundDiv(elem.price, 10) * 10000,
             rating |-> ScrapeRating,
             sales_count |-> 0] >>

\* _extract_from_link_and_text: << >> for None
ExtractFromLinkAndText(link) ==
    IF link.product_id = "" THEN << >>
    ELSE << [product_id |-> link.product_id,
             price |-> link.price,
             commission_rate |-> ScrapeCommissionRate,
             commission_amount |-> RoundDiv(link.price, 10) * 10000,
             rating |-> ScrapeRating,
             sales_count |-> ParseCount(SalesPatternCapture(link.sales))] >>

RECURSIVE FlatMap(_, _)
\* the products Op gives for the elements of s, in order
FlatMap(Op(_), s) ==
    IF s = << >> THEN << >> ELSE Op(Head(s)) \o FlatMap(Op, Tail(s))

\* a function that returns products as they were appended
KeepsEveryProduct(s, seen_ids) == s

RECURSIVE RemoveDuplicates(_, _)
\* the seen_ids loop: the first product of each product_id is kept
RemoveDuplicates(s, seen_ids) ==
    IF s = << >> THEN << >>
    ELSE IF Head(s).product_id \in seen_ids
         THEN RemoveDuplicates(Tail(s), seen_ids)
         ELSE << Head(s) >>
              \o RemoveDuplicates(Tail(s), seen_ids \cup {Head(s).product_id})

\* Strategy 3 of _extract_products_from_page takes a link only when its id
\* is longer than 5 characters
LongIdLinks(links) == SelectSeq(links, LAMBDA l : Len(l.product_id) > MinProductIdLen)

\* unique_products of _extract_products_from_page, before its cut to
\* limit; lim >= 0
ExtractCandidatesFromPage(page, lim) ==
    LET found == FlatMap(JsonToProduct, page.json)
                 \o FlatMap(ParseProductElement, Take(page.dom, lim * 2))
                 \o FlatMap(ExtractFromLinkAndText, LongIdLinks(Take(page.links, lim * 3)))
    IN  RemoveDuplicates(found, {})

\* _extract_products_from_page(page, limit); lim >= 0
ExtractProductsFromPage(page, lim) == Take(ExtractCandidatesFromPage(page, lim), lim)

\* Strategy 1, 2 and 3 of _extract_products_from_page, in their order
Strategies == << "json", "dom", "links" >>

\* before any strategy ran
NoOutcomes == [ s \in Range(Strategies) |-> "none" ]

\* what a strategy that does not raise appends to products
StrategyProducts(s, page, lim) ==
    CASE s = "json" -> FlatMap(JsonToProduct, page.json)
      [] s = "dom" -> FlatMap(ParseProductElement, Take(page.dom, lim * 2))
      [] s = "links" -> FlatMap(ExtractFromLinkAndText,
                                LongIdLinks(Take(page.links, lim * 3)))

\* a function that leaves at the first strategy that raises
AfterStrategyUnguarded(s, raised) ==
    IF raised THEN "returned"
    ELSE IF s = "json" THEN "dom" ELSE IF s = "dom" THEN "links" ELSE "unique"

\* Each strategy is a try block of its own whose handler only logs: the
\* next strategy follows, and the seen_ids loop the last.
AfterStrategy(s, raised) ==
    IF s = "json" THEN "dom" ELSE IF s = "dom" THEN "links" ELSE "unique"


\* Video pages opened by _extract_products_from_videos: whether handling
\* the video raises (goto timeout), and its a[href*="/shop/product/"] links
VideoBroken == [fails |-> TRUE, links |-> << >>]
VideoOneLink == [fails |-> FALSE, links |-> << ShopLinkE >>]
VideoTwoLinks == [fails |-> FALSE, links |-> << ShopLinkShort, ShopLinkE >>]

\* what the video search of the fallback can list
VideoPages ==
    { << >>,
      << VideoOneLink >>,
      << VideoBroken, VideoTwoLinks, VideoOneLink >> }

RECURSIVE VideoLoop(_, _, _)
\* the loop over video_links[:min(10, limit * 2)]
VideoLoop(videos, lim, acc) ==
    IF videos = << >> \/ Len(acc) >= lim THEN acc
    ELSE IF Head(videos).fails THEN VideoLoop(Tail(videos), lim, acc)
    ELSE VideoLoop(Tail(videos), lim,
                   acc \o FlatMap(ExtractFromLinkAndText, Take(Head(videos).links, 3)))

\* the local list products of _extract_products_from_videos, before its
\* cut to limit; lim >= 0
ExtractCandidatesFromVideos(videos, lim) ==
    VideoLoop(Take(videos, Min(MaxVideoVisits, lim * 2)), lim, << >>)

RECURSIVE VideoPagesLoop(_, _, _, _, _)
\* The pages of the same loop: page.context.new_page() opens one for each
\* video, and video_page.close() is the last statement of the try block,
\* so a video whose handling raises leaves its page open.  open is the
\* number of video pages open, most the largest it has been.
VideoPagesLoop(videos, lim, acc, open, most) ==
    IF videos = << >> \/ Len(acc) >= lim THEN most
    ELSE LET opened == open + 1
             top == IF opened > most THEN opened ELSE most
         IN  IF Head(videos).fails
             THEN VideoPagesLoop(Tail(videos), lim, acc, opened, top)
             ELSE VideoPagesLoop(Tail(videos), lim,
                                 acc \o FlatMap(ExtractFromLinkAndText,
                                                Take(Head(videos).links, 3)),
                                 opened - 1, top)

\* the most video pages _extract_products_from_videos has open together
VideoPagesOpenTogether(videos, lim) ==
    VideoPagesLoop(Take(videos, Min(MaxVideoVisits, lim * 2)), lim, << >>, 0, 0)

\* _extract_products_from_videos(page, limit); lim >= 0
ExtractProductsFromVideos(videos, lim) == Take(ExtractCandidatesFromVideos(videos, lim), lim)

\* `if not products and not manual_navigation_allowed` in front of the
\* video search of _fetch_via_scraping
FallbackAttempted(collected, allowed) == collected = << >> /\ ~ allowed

\* 'shop' in url or 'affiliate' in url, for the four shop_urls in order
UrlAllowsManualNavigation == << TRUE, TRUE, TRUE, FALSE >>

\* the page the operator is on when the 15 second window ends: << >>
\* when page.url is still the URL navigated to
NavigationOutcomes == { << >> } \cup { << page >> : page \in ShopPages }

\* "Limit and filter" at the end of _fetch_via_scraping
SortLimitFilter(collected, lim, f) ==
    SelectSeq(Take(SortBySales(collected), lim),
              LAMBDA p : ProductMeetsCriteria(f, p))

\* the end of _fetch_highest_bought_auto: sort and cut when not empty
AutoSortLimit(collected, lim) ==
    IF collected # << >> THEN Take(SortBySales(collected), lim) ELSE collected

\* A pass of `for query in search_queries` or of `for url in shop_urls`,
\* or the video search of the fallback: the scraper, the position of the
\* URL in its list, what the navigation met ("error" is an exception of
\* the pass, "not_found" a 404, "login" a login wall, "loaded" anything
\* else), the scroll cycles made, the calls of the page extractor and the
\* seconds slept for the operator.
Visit(scraper, url, outcome, scrolls, extractions, waited) ==
    [scraper |-> scraper, url |-> url, outcome |-> outcome, scrolls |-> scrolls,
     extractions |-> extractions, waited |-> waited]

\* no pass made: before the first one and when the scraper has returned
NoVisit == Visit("none", 0, "none", 0, 0, 0)

\* `for query in search_queries`: the pass goes on to the scrolls and the
\* extraction unless something raised; a login wall is waited for and the
\* page reloaded
AutoPassProceeds(outcome) == outcome # "error"

\* a URL loop that gives up the URL behind a login wall
ManualPassProceedsWhenLoaded(outcome) == outcome = "loaded"

\* a URL loop without the 404 tests
ManualPassProceedsUnlessError(outcome) == outcome # "error"

\* `for url in shop_urls`: the pass goes on to the scrolls and the
\* extraction unless something raised or one of the 404 tests (status,
\* final URL, title) hit `continue`
ManualPassProceeds(outcome) == outcome \notin {"error", "not_found"}

\* a loop that stays at its element
SameElement(e) == e

\* `for query in search_queries`, `for url in shop_urls`: a pass that does
\* not leave the loop is followed by the pass for the next element
NextElement(e) == e + 1

\* a loop whose handler leaves the loop
AbortAfterFailedPass(e, last) == "exit"

\* `except Exception: ... continue` inside the loop: after a pass that
\* raised, the loop takes the next element, and ends behind the last
AfterFailedPass(e, last) == IF e = last THEN "exit" ELSE "next"

\* Leaving `with sync_playwright() as p:`, by the return or by an
\* exception: the context manager stops the Playwright driver, and the
\* driver closes every browser it launched that is still running.  open
\* says whether browser.close() has not closed the browser before.
SyncPlaywrightExitKeepsBrowser(open) == open

SyncPlaywrightExit(open) == FALSE

----------------------------------------------------------------------------
(* The strategy selector, fetch_trending_products                          *)

\* a selector without its use_scraping branch
AfterApiEmptyToDemo(scraping) == "demo"

\* where the selector goes when the API client is not used or gave nothing
AfterApiEmpty(scraping) == IF scraping THEN "auto_launch" ELSE "demo"

\* a selector that goes on to the other strategies whatever the API gave
AfterApiAlwaysOn(returned, scraping) == AfterApiEmpty(scraping)

\* `if products: return products` behind _fetch_via_api
AfterApi(returned, scraping) ==
    IF returned # << >> THEN "done" ELSE AfterApiEmpty(scraping)

----------------------------------------------------------------------------
(* The dashboard (gui/dashboard.py) and its database (src/database.py)     *)

\* The thread of the Tk main loop, which builds the dashboard and with it
\* the Database and its sqlite3 connection, and an acquisition thread
\* started by fetch_products.
MainThread == "main"
AcquisitionThread == "acquisition"

\* sqlite3.connect(self.db_path) with the default check_same_thread: the
\* connection is used only by the thread that made it, which is the thread
\* that built the Database (init_database connects)
ConnectionThread == MainThread

\* Product dicts handed to add_product or to on_product_found: a key that
\* is absent stands for a key that is absent or None.  StoreB has no
\* name, as an API product whose item has no product_name; StoreA2 has
\* the product_id of StoreA; StoreNoId has no product_id.
StoreA == [product_id |-> "1000001", name |-> "Earbuds", affiliate_link |-> "link"]
StoreA2 == [product_id |-> "1000001", name |-> "Earbuds Pro", affiliate_link |-> "link"]
StoreB == [product_id |-> "1000002", affiliate_link |-> "link"]
StoreC == [product_id |-> "1000003", name |-> "Mirror", affiliate_link |-> "link"]
StoreNoId == [name |-> "Banner", affiliate_link |-> "link"]
StoreProducts == {StoreA, StoreA2, StoreB, StoreC, StoreNoId}

\* putResult before the first call
NoPut == [data |-> << >>, on |-> MainThread, value |-> 0]

\* the columns declared NOT NULL in the products table
NotNullColumns == {"product_id", "name", "affiliate_link"}

\* the product_id values of the stored rows (product_id TEXT UNIQUE)
StoredIds(table) == { table[i].product_id : i \in 1..Len(table) }

\* Database.add_product(product_data) called by `thread`: the table after
\* the call and what the call gives.  A thread other than the
\* connection's gets sqlite3.ProgrammingError, which add_product does not
\* catch.  The INSERT raises sqlite3.IntegrityError, which add_product
\* answers with -1, when a NOT NULL column gets None or the product_id is
\* stored already.  Else the row gets the next id (AUTOINCREMENT; rows
\* are only added here), which is cursor.lastrowid.
DbAddProduct(table, data, thread) ==
    IF thread # ConnectionThread
    THEN [rows |-> table, value |-> "ProgrammingError"]
    ELSE IF \E c \in NotNullColumns : c \notin DOMAIN data
    THEN [rows |-> table, value |-> -1]
    ELSE IF data.product_id \in StoredIds(table)
    THEN [rows |-> table, value |-> -1]
    ELSE [rows |-> Append(table, [id |-> Len(table) + 1,
                                  product_id |-> data.product_id,
                                  name |-> data.name]),
          value |-> Len(table) + 1]

\* Database.get_products() called by `thread`: conn.cursor() raises
\* sqlite3.ProgrammingError on a thread other than the connection's
DbGetProductsRaises(thread) == thread # ConnectionThread

TypeOK ==
    /\ pc \in {"start", "api", "auto_launch", "auto_query", "auto_teardown",
               "manual_launch", "manual_url", "manual_fallback",
               "manual_teardown", "demo", "done", "raised"}
    /\ limit \in Limits
    /\ use_scraping \in BOOLEAN
    /\ callback \in {"none", "given"}
    /\ credentials \in CredentialSets
    /\ filters \in FilterSets
    /\ episode \in 0..NumShopUrls
    /\ manual_navigation_allowed \in BOOLEAN
    /\ browserOpen \in BOOLEAN
    /\ cbRaised \in BOOLEAN
    /\ candidates \in Nat
    /\ apiRequests \in 0..1
    /\ browserLaunches \in 0..2
    /\ demoRuns \in 0..1
    /\ apiOutcome \in {"none", "failed", "ok"}
    /\ autoRuns \in 0..1
    /\ operatorNavigated \in BOOLEAN
    /\ fallbackRuns \in 0..1
    /\ visit.scraper \in {"none", "auto", "manual", "fallback"}
    /\ visit.outcome \in {"none", "error", "not_found", "loaded", "login"}
    /\ videoPages \in 0..MaxVideoVisits
    /\ Len(threads) <= MaxClicks
    /\ \A t \in 1..Len(threads) :
          threads[t].state \in {"running", "finished"}
          /\ threads[t].reports \in 0..MaxReports
    /\ fetched_count \in 0..(MaxClicks * MaxReports)
    /\ \A i \in 1..Len(work) : work[i].on \in {MainThread, AcquisitionThread}
    /\ \A i \in 1..Len(rows) : rows[i].id = i
    /\ putCalls \in 0..(MaxPuts + MaxClicks * MaxReports)
    /\ strategy \in {"idle", "json", "dom", "links", "unique", "returned"}
    /\ page_limit \in 0..MaxLimit
    /\ \A s \in Range(Strategies) : outcomes[s] \in {"none", "raised", "empty", "found"}
    /\ Len(unique_products) <= page_limit
    /\ via \in {"none", "_parse_count", "_extract_from_link_and_text"}
    /\ parsed_count \in Nat

Init ==
    /\ pc = "start"
    /\ limit \in Limits
    /\ use_scraping \in BOOLEAN
    /\ callback \in {"none", "given"}
    /\ credentials \in CredentialSets
    /\ filters \in FilterSets
    /\ products = << >>
    /\ episode = 0
    /\ manual_navigation_allowed = FALSE
    /\ browserOpen = FALSE
    /\ result = << >>
    /\ apiReturned = << >>
    /\ reported = << >>
    /\ cbRaised = FALSE
    /\ candidates = 0
    /\ apiRequests = 0
    /\ browserLaunches = 0
    /\ demoRuns = 0
    /\ apiOutcome = "none"
    /\ autoRuns = 0
    /\ gathered = << >>
    /\ operatorNavigated = FALSE
    /\ fallbackRuns = 0
    /\ visit = NoVisit
    /\ videoPages = 0
    /\ threads = << >>
    /\ fetched_count = 0
    /\ after_queue = << >>
    /\ work = << >>
    /\ rows = << >>
    /\ putCalls = 0
    /\ putResult = NoPut
    /\ strategy = "idle"
    /\ snapshot = PageEmpty
    /\ page_limit = 0
    /\ page_products = << >>
    /\ outcomes = NoOutcomes
    /\ unique_products = << >>
    /\ count_text = NoCount
    /\ via = "none"
    /\ parsed_count = 0

\* the arguments and the fetcher's configuration do not change in a call
inputs == << limit, use_scraping, callback, credentials, filters >>

\* on_product_found is called for each product of `called` (when it is
\* given); the calls raise as mode says, and every call site catches it
Report(called, mode) ==
    IF callback = "given" /\ called # << >>
    THEN /\ reported' = reported \o called
         /\ cbRaised' = (cbRaised \/ mode # "never")
    ELSE /\ mode = "never"
         /\ UNCHANGED << reported, cbRaised >>

Start ==
    /\ pc = "start"
    /\ pc' = IF HasApiCredentials(credentials) THEN "api"
             ELSE AfterApiEmpty(use_scraping)
    /\ UNCHANGED << inputs, dashboard, extraction, counting, visit, videoPages, products, episode, manual_navigation_allowed,
                    browserOpen, result, apiReturned, reported, cbRaised,
                    candidates, apiRequests, browserLaunches, demoRuns,
                    apiOutcome, autoRuns, gathered, operatorNavigated,
                    fallbackRuns >>

FetchViaApi ==
    /\ pc = "api"
    /\ \E response \in ApiResponses :
          LET returned == Tag(FetchViaApiResult(response, filters), 0)
          IN  /\ apiReturned' = returned
              /\ apiOutcome' = IF response.kind \in ApiFailures THEN "failed" ELSE "ok"
              /\ pc' = AfterApi(returned, use_scraping)
              /\ result' = IF pc' = "done" THEN returned ELSE result
    /\ apiRequests' = apiRequests + 1
    /\ UNCHANGED << inputs, dashboard, extraction, counting, visit, videoPages, products, episode, manual_navigation_allowed,
                    browserOpen, reported, cbRaised, candidates,
                    browserLaunches, demoRuns, autoRuns, gathered,
                    operatorNavigated, fallbackRuns >>

\* _fetch_highest_bought_auto up to the query loop: sync_playwright,
\* chromium.launch, new_context, the cookie file, new_page.  When the
\* import or the launch raises ("launch_failed"), or new_context or
\* new_page raises behind the launch ("setup_failed"), the exception leaves
\* the with block, the function returns [] and the selector goes on to
\* _fetch_via_scraping.
AutoLaunch ==
    /\ pc = "auto_launch"
    /\ autoRuns' = autoRuns + 1
    /\ \E outcome \in {"launch_failed", "setup_failed", "ok"} :
          /\ browserLaunches' = IF outcome = "launch_failed" THEN browserLaunches
                                ELSE browserLaunches + 1
          /\ IF outcome = "ok"
             THEN /\ pc' = "auto_query"
                  /\ browserOpen' = TRUE
                  /\ episode' = 1
             ELSE /\ pc' = "manual_launch"
                  /\ browserOpen' = SyncPlaywrightExit(outcome = "setup_failed")
                  /\ UNCHANGED episode
    /\ products' = << >>
    /\ UNCHANGED << inputs, dashboard, extraction, counting, visit, videoPages, manual_navigation_allowed, result, apiReturned,
                    reported, cbRaised, candidates, apiRequests, demoRuns,
                    apiOutcome, gathered, operatorNavigated, fallbackRuns >>

\* One pass of `for query in search_queries`: goto, the login wait and
\* reload, five scrolls, _extract_products_from_search_page, extend, the
\* limit test.  An exception of the pass (navigation, reload, scroll) is
\* caught by the loop's handler, which goes on with the next query.
AutoQuery ==
    /\ pc = "auto_query"
    /\ \E outcome \in {"error", "loaded", "login"}, page \in SearchPages,
          mode \in CallbackModes :
          LET extracted == ExtractProductsFromSearchPage(page, limit - Len(products),
                                                         filters, mode)
          IN  IF ~ AutoPassProceeds(outcome)
              THEN /\ page = << >> /\ mode = "never"
                   /\ UNCHANGED << products, reported, cbRaised, candidates, gathered >>
                   /\ visit' = Visit("auto", episode, outcome, 0, 0, 0)
                   /\ pc' = IF AfterFailedPass(episode, NumSearchQueries) = "exit"
                            THEN "auto_teardown" ELSE pc
              ELSE /\ products' = products \o Tag(extracted.products, Len(products))
                   /\ candidates' = candidates + Len(extracted.called)
                   /\ gathered' = gathered \o extracted.called
                   /\ Report(extracted.called, mode)
                   /\ visit' = Visit("auto", episode, outcome, ScrollCycles, 1,
                                     IF outcome = "login" THEN LoginWait ELSE 0)
                   /\ pc' = IF Len(products') >= limit \/ episode = NumSearchQueries
                            THEN "auto_teardown" ELSE pc
    /\ episode' = IF pc' = "auto_query" THEN NextElement(episode) ELSE episode
    /\ UNCHANGED << inputs, dashboard, extraction, counting, videoPages, manual_navigation_allowed, browserOpen, result,
                    apiReturned, apiRequests, browserLaunches, demoRuns,
                    apiOutcome, autoRuns, operatorNavigated, fallbackRuns >>

\* Behind the loop: the cookies are saved (a failure is caught), the
\* browser is closed, the products are sorted and cut, and the selector
\* returns them when the list is not empty.
AutoTeardown ==
    /\ pc = "auto_teardown"
    /\ browserOpen' = SyncPlaywrightExit(FALSE)
    /\ visit' = NoVisit
    /\ LET returned == AutoSortLimit(products, limit)
       IN  IF returned # << >>
           THEN /\ pc' = "done"
                /\ result' = returned
           ELSE /\ pc' = "manual_launch"
                /\ UNCHANGED result
    /\ products' = << >>
    /\ UNCHANGED << inputs, dashboard, extraction, counting, videoPages, episode, manual_navigation_allowed, apiReturned,
                    reported, cbRaised, candidates, apiRequests,
                    browserLaunches, demoRuns, apiOutcome, autoRuns, gathered,
                    operatorNavigated, fallbackRuns >>

\* _fetch_via_scraping up to the URL loop: launch, context, cookies, page,
\* and the visit of the home page (whose failure is caught and whose login
\* wait changes nothing but the time).  When the import or the launch
\* raises, or new_context or new_page raises behind the launch, the
\* function returns [] and the selector goes on to the demo products.
ManualLaunch ==
    /\ pc = "manual_launch"
    /\ \E outcome \in {"launch_failed", "setup_failed", "ok"} :
          /\ browserLaunches' = IF outcome = "launch_failed" THEN browserLaunches
                                ELSE browserLaunches + 1
          /\ IF outcome = "ok"
             THEN /\ pc' = "manual_url"
                  /\ browserOpen' = TRUE
                  /\ episode' = 1
             ELSE /\ pc' = "demo"
                  /\ browserOpen' = SyncPlaywrightExit(outcome = "setup_failed")
                  /\ UNCHANGED episode
    /\ products' = << >>
    /\ manual_navigation_allowed' = FALSE
    /\ UNCHANGED << inputs, dashboard, extraction, counting, visit, videoPages, result, apiReturned, reported, cbRaised,
                    candidates, apiRequests, demoRuns, apiOutcome, autoRuns,
                    gathered, operatorNavigated, fallbackRuns >>

\* whether one pass of `for url in shop_urls` opens the 15 second window
\* for manual navigation: the extraction found nothing, the URL holds
\* 'shop' or 'affiliate', manual_navigation_allowed is not set
WindowOpens(page, allowed) ==
    /\ ExtractProductsFromPage(page, limit - Len(products)) = << >>
    /\ UrlAllowsManualNavigation[episode]
    /\ ~ allowed

\* what one pass of `for url in shop_urls` adds to products when the page
\* loads: the extraction, and the second extraction when the first found
\* nothing and the operator navigated by hand
EpisodeExtracted(page, navigated, allowed) ==
    LET extracted == ExtractProductsFromPage(page, limit - Len(products))
    IN  IF extracted # << >> THEN extracted
        ELSE IF WindowOpens(page, allowed) /\ navigated # << >>
        THEN ExtractProductsFromPage(navigated[1], limit - Len(products))
        ELSE << >>

\* One pass of `for url in shop_urls`.  outcome "error" is an exception of
\* the pass, "not_found" a 404 (status, URL or title): both go on with the
\* next URL.  Otherwise the page loads, behind a login wait or not: five
\* scrolls, the extraction, and when it found nothing on a shop URL the
\* 15 second window, behind which a changed page.url gives one more
\* scroll and one more extraction.
ManualEpisode ==
    /\ pc = "manual_url"
    /\ \E outcome \in {"error", "not_found", "loaded", "login"},
          page \in ShopPages, navigated \in NavigationOutcomes :
          IF ~ ManualPassProceeds(outcome)
          THEN /\ page = PageEmpty /\ navigated = << >>
               /\ UNCHANGED << products, manual_navigation_allowed, candidates,
                               gathered, operatorNavigated >>
               /\ visit' = Visit("manual", episode, outcome, 0, 0, 0)
               /\ pc' = IF outcome = "error"
                        THEN (IF AfterFailedPass(episode, NumShopUrls) = "exit"
                              THEN "manual_fallback" ELSE pc)
                        ELSE (IF episode = NumShopUrls THEN "manual_fallback" ELSE pc)
          ELSE /\ manual_navigation_allowed' =
                      (manual_navigation_allowed \/ outcome = "login")
               /\ LET window == WindowOpens(page, manual_navigation_allowed')
                      moved == window /\ navigated # << >>
                  IN  /\ ~ window => navigated = << >>
                      /\ operatorNavigated' = (operatorNavigated \/ moved)
                      /\ gathered' = gathered
                            \o ExtractCandidatesFromPage(page, limit - Len(products))
                            \o (IF moved
                                THEN ExtractCandidatesFromPage(navigated[1],
                                                               limit - Len(products))
                                ELSE << >>)
                      /\ visit' = Visit("manual", episode, outcome,
                                        ScrollCycles + (IF moved THEN 1 ELSE 0),
                                        1 + (IF moved THEN 1 ELSE 0),
                                        (IF outcome = "login" THEN LoginWait ELSE 0)
                                        + (IF window THEN NavigationWait ELSE 0))
               /\ products' = products
                      \o Tag(EpisodeExtracted(page, navigated, manual_navigation_allowed'),
                             Len(products))
               /\ candidates' = candidates + Len(products') - Len(products)
               /\ pc' = IF Len(products') >= limit \/ episode = NumShopUrls
                        THEN "manual_fallback" ELSE pc
    /\ episode' = IF pc' = "manual_url" THEN NextElement(episode) ELSE episode
    /\ UNCHANGED << inputs, dashboard, extraction, counting, videoPages, browserOpen, result, apiReturned, reported,
                    cbRaised, apiRequests, browserLaunches, demoRuns,
                    apiOutcome, autoRuns, fallbackRuns >>

\* `if not products and not manual_navigation_allowed`: one video search
\* (goto, three scrolls, _extract_products_from_videos), whose failure is
\* caught
ManualFallback ==
    /\ pc = "manual_fallback"
    /\ IF FallbackAttempted(products, manual_navigation_allowed)
       THEN \E failed \in BOOLEAN, videos \in VideoPages :
               /\ failed => videos = << >>
               /\ products' = IF failed THEN products
                              ELSE Tag(ExtractProductsFromVideos(videos, limit), 0)
               /\ gathered' = IF failed THEN gathered
                              ELSE gathered \o ExtractCandidatesFromVideos(videos, limit)
               /\ candidates' = candidates + Len(products')
               /\ fallbackRuns' = fallbackRuns + 1
               /\ videoPages' = IF failed THEN videoPages
                                ELSE VideoPagesOpenTogether(videos, limit)
               /\ visit' = IF failed THEN Visit("fallback", 1, "error", 0, 0, 0)
                           ELSE Visit("fallback", 1, "loaded", FallbackScrolls, 1, 0)
       ELSE UNCHANGED << products, candidates, gathered, fallbackRuns, videoPages,
                         visit >>
    /\ pc' = "manual_teardown"
    /\ UNCHANGED << inputs, dashboard, extraction, counting, episode, manual_navigation_allowed, browserOpen,
                    result, apiReturned, reported, cbRaised, apiRequests,
                    browserLaunches, demoRuns, apiOutcome, autoRuns,
                    operatorNavigated >>

\* Behind the fallback: cookies saved (a failure is caught), browser
\* closed, then [] when nothing was found, else sort, cut, filter; the
\* selector returns the list when it is not empty.
ManualTeardown ==
    /\ pc = "manual_teardown"
    /\ browserOpen' = SyncPlaywrightExit(FALSE)
    /\ visit' = NoVisit
    /\ LET returned == IF products = << >> THEN << >>
                       ELSE SortLimitFilter(products, limit, filters)
       IN  IF returned # << >>
           THEN /\ pc' = "done"
                /\ result' = returned
           ELSE /\ pc' = "demo"
                /\ UNCHANGED result
    /\ products' = << >>
    /\ UNCHANGED << inputs, dashboard, extraction, counting, videoPages, episode, manual_navigation_allowed, apiReturned,
                    reported, cbRaised, candidates, apiRequests,
                    browserLaunches, demoRuns, apiOutcome, autoRuns, gathered,
                    operatorNavigated, fallbackRuns >>

\* _generate_demo_products(limit, on_product_found): its result is what
\* fetch_trending_products returns, its IndexError what it raises
GenerateDemo ==
    /\ pc = "demo"
    /\ demoRuns' = demoRuns + 1
    /\ IF DemoRaises(limit, filters)
       THEN /\ pc' = "raised"
            /\ UNCHANGED << result, reported, cbRaised >>
       ELSE \E draws \in DemoDrawSeqs(DemoCount(limit)), mode \in CallbackModes :
               /\ pc' = "done"
               /\ result' = Tag(DemoProducts(draws), 0)
               /\ Report(DemoProducts(draws), mode)
    /\ UNCHANGED << inputs, dashboard, extraction, counting, visit, videoPages, products, episode, manual_navigation_allowed,
                    browserOpen, apiReturned, candidates, apiRequests,
                    browserLaunches, apiOutcome, autoRuns, gathered,
                    operatorNavigated, fallbackRuns >>

Next ==
    \/ Start
    \/ FetchViaApi
    \/ AutoLaunch
    \/ AutoQuery
    \/ AutoTeardown
    \/ ManualLaunch
    \/ ManualEpisode
    \/ ManualFallback
    \/ ManualTeardown
    \/ GenerateDemo

Spec == Init /\ [][Next]_vars

\* The call with no API credentials and scraping on: the selector never
\* uses the API client.
ScrapeInit == Init /\ credentials = NoCredentials /\ use_scraping = TRUE

ScrapeNext ==
    \/ Start
    \/ AutoLaunch
    \/ AutoQuery
    \/ AutoTeardown
    \/ ManualLaunch
    \/ ManualEpisode
    \/ ManualFallback
    \/ ManualTeardown
    \/ GenerateDemo

ScrapeSpec == ScrapeInit /\ [][ScrapeNext]_vars

\* The same call running to its end.  Every step is a step of the one
\* thread that runs the call, made of calls that return or raise after a
\* bounded time (navigation timeouts, fixed sleeps), so a step that can
\* be taken is taken.
LiveSpec == ScrapeSpec /\ WF_vars(ScrapeNext)

----------------------------------------------------------------------------
(* One call of _extract_products_from_page, strategy by strategy          *)

\* the fetcher and the dashboard while no call of theirs runs
FetcherAtRest ==
    /\ pc = "start"
    /\ limit = DefaultLimit
    /\ use_scraping = TRUE
    /\ callback = "none"
    /\ credentials = NoCredentials
    /\ filters = SettingsFilters
    /\ products = << >>
    /\ episode = 0
    /\ manual_navigation_allowed = FALSE
    /\ browserOpen = FALSE
    /\ result = << >>
    /\ apiReturned = << >>
    /\ reported = << >>
    /\ cbRaised = FALSE
    /\ candidates = 0
    /\ apiRequests = 0
    /\ browserLaunches = 0
    /\ demoRuns = 0
    /\ apiOutcome = "none"
    /\ autoRuns = 0
    /\ gathered = << >>
    /\ operatorNavigated = FALSE
    /\ fallbackRuns = 0
    /\ visit = NoVisit
    /\ videoPages = 0
    /\ threads = << >>
    /\ fetched_count = 0
    /\ after_queue = << >>
    /\ work = << >>
    /\ rows = << >>
    /\ putCalls = 0
    /\ putResult = NoPut

\* no _extract_products_from_page call runs
ExtractionAtRest ==
    /\ strategy = "idle"
    /\ snapshot = PageEmpty
    /\ page_limit = 0
    /\ page_products = << >>
    /\ outcomes = NoOutcomes
    /\ unique_products = << >>

\* no count text is being normalized
CountingAtRest ==
    /\ count_text = NoCount
    /\ via = "none"
    /\ parsed_count = 0

\* the pages the function is called on
ExtractPages == ShopPages \cup {PageShifted}

\* _extract_products_from_page(page, limit) at its first statement; the
\* scrapers pass limit - len(products), which is not negative
ExtractInit ==
    /\ FetcherAtRest
    /\ CountingAtRest
    /\ strategy = "json"
    /\ snapshot \in ExtractPages
    /\ page_limit \in 0..MaxLimit
    /\ page_products = << >>
    /\ outcomes = NoOutcomes
    /\ unique_products = << >>

\* One strategy: its try block either raises before it appended anything
\* (page.content() or query_selector_all raises) or appends what it finds;
\* then the function goes on.  A function left by the exception returns
\* [] from its outer handler.
RunStrategy(s) ==
    /\ strategy = s
    /\ \E raised \in BOOLEAN :
          LET found == IF raised THEN << >>
                       ELSE StrategyProducts(s, snapshot, page_limit)
          IN  /\ page_products' = page_products \o found
              /\ outcomes' = [outcomes EXCEPT ![s] =
                                 IF raised THEN "raised"
                                 ELSE IF found = << >> THEN "empty" ELSE "found"]
              /\ strategy' = AfterStrategy(s, raised)
    /\ UNCHANGED << fetcher, dashboard, counting, snapshot, page_limit,
                    unique_products >>

StrategyJson == RunStrategy("json")

StrategyDom == RunStrategy("dom")

StrategyLinks == RunStrategy("links")

\* the seen_ids loop and `return unique_products[:limit]`
ReturnUnique ==
    /\ strategy = "unique"
    /\ unique_products' = Take(RemoveDuplicates(page_products, {}), page_limit)
    /\ strategy' = "returned"
    /\ UNCHANGED << fetcher, dashboard, counting, snapshot, page_limit,
                    page_products, outcomes >>

ExtractNext ==
    \/ StrategyJson
    \/ StrategyDom
    \/ StrategyLinks
    \/ ReturnUnique

ExtractSpec == ExtractInit /\ [][ExtractNext]_vars

----------------------------------------------------------------------------
(* The normalization of one count text                                    *)

\* the largest number in front of the point
MaxWhole == 12

\* a count text without a point
NoFraction == -1

\* The count texts normalized: with and without a digit behind the point,
\* with and without a suffix.  Of the texts in B, those whose values the
\* integers of the model can hold.
CountTexts ==
    { t \in { CountText(whole, frac, suffix) :
                 whole \in 0..MaxWhole, frac \in NoFraction..9,
                 suffix \in {"", "K", "M", "B"} } :
        t.suffix = "B" => t.whole <= 1 /\ t.frac <= 2 }

ParseInit ==
    /\ FetcherAtRest
    /\ ExtractionAtRest
    /\ count_text \in CountTexts
    /\ via = "none"
    /\ parsed_count = 0

\* self._parse_count(text), as _json_to_product calls it for 'sold'
ParseCountCall ==
    /\ via = "none"
    /\ via' = "_parse_count"
    /\ parsed_count' = ParseCount(count_text)
    /\ UNCHANGED << fetcher, dashboard, extraction, count_text >>

\* _extract_from_link_and_text(href, text) for a text that holds the count
\* text and a word of the first sales pattern behind it ("12.5K sold")
ExtractFromLinkAndTextCall ==
    /\ via = "none"
    /\ via' = "_extract_from_link_and_text"
    /\ parsed_count' =
          ExtractFromLinkAndText([product_id |-> "1000005", price |-> 1200,
                                  sales |-> count_text])[1].sales_count
    /\ UNCHANGED << fetcher, dashboard, extraction, count_text >>

ParseNext ==
    \/ ParseCountCall
    \/ ExtractFromLinkAndTextCall

ParseSpec == ParseInit /\ [][ParseNext]_vars

----------------------------------------------------------------------------
(* The dashboard's fetch and the store's put                               *)

\* fetch_trending_products(limit=20, use_scraping=True, on_product_found=...)
DashboardLimit == 20

\* the acquisition threads that have not ended
Running == { t \in 1..Len(threads) : threads[t].state = "running" }

\* fetch_products(), the command of both fetch buttons, run by the main
\* loop: it resets fetched_count and starts a daemon thread for task();
\* nothing tests whether an earlier thread is still running.
FetchProducts ==
    /\ Len(threads) < MaxClicks
    /\ fetched_count' = 0
    /\ threads' = Append(threads, [state |-> "running", reports |-> 0])
    /\ UNCHANGED << fetcher, extraction, counting, after_queue, work, rows, putCalls, putResult >>

\* on_product_found(product), called by the fetcher inside task() and so
\* on acquisition thread t.  A product with no product_id is dropped.
\* Else add_product is called in place (what it raises is caught and
\* logged), fetched_count is incremented in place, and the table update
\* and the status update are scheduled with root.after.
OnProductFound(t, product) ==
    /\ t \in Running
    /\ threads[t].reports < MaxReports
    /\ threads' = [threads EXCEPT ![t].reports = @ + 1]
    /\ IF "product_id" \notin DOMAIN product
       THEN UNCHANGED << fetched_count, after_queue, work, rows, putCalls,
                         putResult >>
       ELSE LET put == DbAddProduct(rows, product, AcquisitionThread)
            IN  /\ rows' = put.rows
                /\ putCalls' = putCalls + 1
                /\ putResult' = [data |-> product, on |-> AcquisitionThread,
                                 value |-> put.value]
                /\ fetched_count' = fetched_count + 1
                /\ work' = work \o << [kind |-> "store", on |-> AcquisitionThread],
                                      [kind |-> "count", on |-> AcquisitionThread] >>
                /\ after_queue' = after_queue \o << "table", "status" >>
    /\ UNCHANGED << fetcher, extraction, counting >>

\* the end of task() on acquisition thread t, after fetch_trending_products
\* returned: get_products() is called in place; when it raises, the
\* except branch schedules the error box and the failure status, else
\* the refresh and the result box are scheduled.
TaskEnd(t) ==
    /\ t \in Running
    /\ threads' = [threads EXCEPT ![t].state = "finished"]
    /\ after_queue' = after_queue \o
          (IF DbGetProductsRaises(AcquisitionThread)
           THEN << "error", "failed" >>
           ELSE << "refresh", "result" >>)
    /\ UNCHANGED << fetcher, extraction, counting, fetched_count, work, rows, putCalls, putResult >>

\* the Tk main loop runs the oldest callback scheduled with root.after;
\* _add_product_to_table is the consumer's table update
MainLoop ==
    /\ after_queue # << >>
    /\ after_queue' = Tail(after_queue)
    /\ work' = IF Head(after_queue) = "table"
               THEN Append(work, [kind |-> "table", on |-> MainThread])
               ELSE work
    /\ UNCHANGED << fetcher, extraction, counting, threads, fetched_count, rows, putCalls, putResult >>

\* db.add_product(data) on the thread that built the Database: the
\* command line's fetch (main.py) and add_product_manually
Put(data) ==
    /\ putCalls < MaxPuts
    /\ LET put == DbAddProduct(rows, data, ConnectionThread)
       IN  /\ rows' = put.rows
           /\ putResult' = [data |-> data, on |-> ConnectionThread,
                            value |-> put.value]
    /\ putCalls' = putCalls + 1
    /\ UNCHANGED << fetcher, extraction, counting, threads, fetched_count, after_queue, work >>

\* The dashboard with Tk's main loop running: the fetcher is the one the
\* dashboard builds, and its calls happen inside task().
DashInit ==
    /\ Init
    /\ limit = DashboardLimit
    /\ use_scraping = TRUE
    /\ callback = "given"
    /\ credentials = NoCredentials
    /\ filters = SettingsFilters

DashNext ==
    \/ FetchProducts
    \/ \E t \in 1..MaxClicks, product \in StoreProducts : OnProductFound(t, product)
    \/ \E t \in 1..MaxClicks : TaskEnd(t)
    \/ MainLoop
    \/ \E data \in StoreProducts : Put(data)

DashSpec == DashInit /\ [][DashNext]_vars

----------------------------------------------------------------------------
(* Properties                                                              *)

\* the acceptance filters in the words of the filter invariant: price
\* within [min_price, max_price], commission rate and rating at least
\* their minimum (a key the filters do not set has the default of
\* _meets_criteria)
SatisfiesFilters(f, p) ==
    /\ Get(f, "min_price", DefaultMinPrice) <= p.price
    /\ p.price <= Get(f, "max_price", DefaultMaxPrice)
    /\ p.commission_rate >= Get(f, "min_commission_rate", DefaultMinCommissionRate)
    /\ p.rating >= Get(f, "min_rating", DefaultMinRating)

DistinctIds(s) ==
    \A i, j \in 1..Len(s) : i < j => s[i].product_id # s[j].product_id

Digits == {"0", "1", "2", "3", "4", "5", "6", "7", "8", "9"}

\* DEMO_ followed by four digits
IsDemoId(id) ==
    /\ Len(id) = 9
    /\ SubSeq(id, 1, 5) = "DEMO_"
    /\ \A k \in 6..9 : SubSeq(id, k, k) \in Digits

\* C1: fetch_trending_products never raises to its caller: whatever the
\* limit, the filters, the callback and the strategies do, the call ends
\* by returning a list.
C1_NeverRaises == pc # "raised"

\* C2: for every limit N > 0 the returned list has a length L with
\* 0 < L <= N, whichever strategy produced it.
C2_LengthWithinLimit ==
    (pc = "done" /\ limit > 0) => (0 < Len(result) /\ Len(result) <= limit)

\* C3: every product of the returned list was passed to the caller's
\* callback exactly once before the call returned, whichever strategy
\* produced it.
C3_ReportedExactlyOnce ==
    (pc = "done" /\ callback = "given") =>
        \A i \in 1..Len(result) : Count(Untag(result[i]), reported) = 1

\* C4: the product ids of a returned list are pairwise distinct, also when
\* the same id is extracted in two episodes of one browser acquisition.
C4_DistinctIds == pc = "done" => DistinctIds(result)

\* C5: every product of the returned list satisfies the acceptance
\* filters, whichever strategy produced it, demo products included.
C5_ResultMeetsFilters ==
    pc = "done" => \A i \in 1..Len(result) : SatisfiesFilters(filters, result[i])

\* C6: when the API client returns a non-empty list, the call returns
\* exactly that list, and neither a browser scraper nor the demo generator
\* is started at any point of the call.
C6_ApiAuthoritative ==
    apiReturned # << >> =>
        /\ pc = "done"
        /\ result = apiReturned
        /\ browserLaunches = 0
        /\ ~ browserOpen
        /\ demoRuns = 0

C6_Witness ==
    /\ pc = "done"
    /\ use_scraping
    /\ Len(apiReturned) >= 2
    /\ result = apiReturned

\* C7: with no credentials and browser scrapers that extract no candidate
\* in any episode, the call with limit N > 0 returns exactly N demo
\* products, with pairwise distinct DEMO_nnnn ids and every price in
\* [15, 150].
C7_DemoGivesLimit ==
    ( /\ pc = "done"
      /\ limit > 0
      /\ credentials = NoCredentials
      /\ use_scraping
      /\ browserLaunches = 2
      /\ candidates = 0 )
    => /\ Len(result) = limit
       /\ DistinctIds(result)
       /\ \A i \in 1..Len(result) :
             /\ IsDemoId(result[i].product_id)
             /\ 1500 <= result[i].price
             /\ result[i].price <= 15000

\* C8: the call with limit 0 returns an empty list and uses no strategy:
\* no API request, no browser launch, no demo generation.
C8_LimitZeroDoesNothing ==
    limit = 0 =>
        /\ apiRequests = 0
        /\ browserLaunches = 0
        /\ demoRuns = 0
        /\ (pc = "done" => result = << >>)

\* C9 as claimed: during a browser acquisition the callback is invoked
\* only for candidates that pass the acceptance filters.
C9_OnlyAcceptedReported ==
    demoRuns = 0 =>
        \A i \in 1..Len(reported) : SatisfiesFilters(filters, reported[i])

\* C9 as amended: in the automatic acquisition the callback is invoked for
\* every extracted candidate, before the filters are applied (so the
\* number of reported products is the number of candidates), and only
\* candidates that pass the filters are kept; every kept product was
\* reported.
C9_ReportedBeforeFilter ==
    pc \in {"auto_query", "auto_teardown"} =>
        /\ \A i \in 1..Len(products) :
              /\ SatisfiesFilters(filters, products[i])
              /\ callback = "given" => Count(Untag(products[i]), reported) >= 1
        /\ callback = "given" => Len(reported) = candidates

C9_Witness ==
    /\ pc = "auto_teardown"
    /\ callback = "given"
    /\ products # << >>
    /\ \E i \in 1..Len(reported) : ~ SatisfiesFilters(filters, reported[i])

\* C10: the returned list is sorted by sales count in non-increasing
\* order, and products with equal sales count keep their discovery order.
C10_SortedStable ==
    pc = "done" =>
        \A i, j \in 1..Len(result) :
            i < j => /\ SalesCount(result[i]) >= SalesCount(result[j])
                     /\ SalesCount(result[i]) = SalesCount(result[j])
                           => result[i].seq < result[j].seq

C10_Witness ==
    /\ pc = "done"
    /\ browserLaunches = 2
    /\ \E i, j \in 1..Len(result) :
          i < j /\ SalesCount(result[i]) > SalesCount(result[j])
                /\ result[i].seq > result[j].seq
    /\ \E i, j \in 1..Len(result) :
          i < j /\ SalesCount(result[i]) = SalesCount(result[j])

\* C11 as claimed: when the API request fails, the API client returns an
\* empty list without raising, and the selector goes on to the browser
\* acquirer in the same call.
C11_ApiFailureGoesToBrowser ==
    apiOutcome = "failed" =>
        /\ apiReturned = << >>
        /\ pc = "auto_launch" \/ autoRuns >= 1

\* C11 as amended: when the API request fails, the API client returns an
\* empty list without raising; the selector then goes on to the browser
\* acquirer when use_scraping is true, and straight to the demo generator,
\* with no browser acquirer, when use_scraping is false.
C11_ApiFailureFailsOpen ==
    apiOutcome = "failed" =>
        /\ apiReturned = << >>
        /\ apiRequests = 1
        /\ IF use_scraping
           THEN pc = "auto_launch" \/ autoRuns = 1
           ELSE /\ autoRuns = 0
                /\ browserLaunches = 0
                /\ pc = "demo" \/ demoRuns = 1

C11_Witness ==
    /\ apiOutcome = "failed"
    /\ pc = "auto_query"
    /\ autoRuns = 1
    /\ browserOpen

\* the three credentials are present (non-empty)
AllThreePresent(c) ==
    \A k \in {"app_key", "app_secret", "access_token"} : c[k] # ""

\* C12 as claimed: the API request is issued only when app key, app secret
\* and access token are all present; when one is missing, no API request
\* is made and the selector starts with the browser acquirer.
C12_NoRequestThenBrowser ==
    /\ apiRequests > 0 => AllThreePresent(credentials)
    /\ (~ AllThreePresent(credentials) /\ pc # "start") =>
          /\ apiRequests = 0
          /\ pc = "auto_launch" \/ autoRuns >= 1

\* C12 as amended: the API request is issued only when app key, app secret
\* and access token are all present; when one is missing, no API request
\* is made, and the selector starts with the browser acquirer when
\* use_scraping is true and with the demo generator when it is false.
C12_NoRequestWithoutCredentials ==
    /\ apiRequests > 0 => AllThreePresent(credentials)
    /\ (~ AllThreePresent(credentials) /\ pc # "start") =>
          /\ apiRequests = 0
          /\ apiOutcome = "none"
          /\ IF use_scraping
             THEN pc = "auto_launch" \/ autoRuns = 1
             ELSE autoRuns = 0 /\ (pc = "demo" \/ demoRuns = 1)

C12_Witness ==
    /\ credentials = NoTokenCredentials
    /\ pc = "auto_query"
    /\ apiRequests = 0

\* every product the call has made so far: returned, reported, collected
\* by the running scraper, or extracted from a page
Produced ==
    Range(result) \cup Range(reported) \cup Range(products) \cup Range(gathered)

\* round(price * commission_rate / 100, 2) of a product's stored price
\* (cents) and stored commission_rate (1/100 percent), in 1/1000000 USD
RoundedCommission(p) == RoundDiv(p.price * p.commission_rate, 10000) * 10000

\* C13: for every product of every strategy, the stored commission_amount
\* equals round(price * commission_rate / 100, 2) of the product's own
\* stored price and commission_rate.
C13_CommissionIsRounded ==
    \A p \in Produced : p.commission_amount = RoundedCommission(p)

\* C17: every product the call returns or reports has price >= 0 and
\* 0 <= rating <= 5, whatever the source supplied.
C17_PriceAndRatingInRange ==
    \A p \in Range(result) \cup Range(reported) :
        /\ p.price >= 0
        /\ 0 <= p.rating
        /\ p.rating <= 50

\* the positions inside the with block of a browser scraper
ScraperPositions ==
    {"auto_query", "auto_teardown", "manual_url", "manual_fallback",
     "manual_teardown"}

C19_FilterBeforeSortAndCut ==
    (pc = "done" /\ demoRuns = 0 /\ apiReturned = << >>) =>
        [ i \in 1..Len(result) |-> Untag(result[i]) ]
            = Take(SortBySales(SelectSeq(gathered,
                                         LAMBDA p : SatisfiesFilters(filters, p))),
                   limit)

\* C20: the video-search fallback is attempted at most once per
\* acquisition, and only when the regular episodes found no candidate and
\* the operator did not navigate by hand: after a manual navigation during
\* the 15 second window no fallback is attempted.
C20_FallbackOnceWithoutNavigation ==
    [][ fallbackRuns' # fallbackRuns =>
            /\ fallbackRuns = 0
            /\ products = << >>
            /\ ~ operatorNavigated ]_vars


\* C14: during a dashboard fetch, the consumer's work for each reported
\* product (the store write, the fetched-count update, the table update)
\* is done on the UI thread and none of it on the acquisition thread.
C14_ConsumerWorkOnUiThread ==
    \A i \in 1..Len(work) : work[i].on = MainThread

\* C15: at most one acquisition runs at a time: calling fetch_products
\* while a fetch is running never gives two acquisition threads alive
\* together.
C15_OneAcquisitionAtATime ==
    Cardinality(Running) <= 1

\* C16: a put made on the connection's thread for a product that has a
\* product_id gives the new row's id and stores the row when the
\* product_id is not stored, and gives -1 and leaves the table as it is
\* when it is stored; after any puts the stored product_id values are
\* pairwise distinct.
C16_PutGivesIdOrDuplicate ==
    [][ (putCalls' # putCalls /\ putResult'.on = ConnectionThread
           /\ "product_id" \in DOMAIN putResult'.data)
        => /\ IF putResult'.data.product_id \in StoredIds(rows)
              THEN putResult'.value = -1 /\ rows' = rows
              ELSE /\ putResult'.value = Len(rows) + 1
                   /\ Len(rows') = Len(rows) + 1
                   /\ SubSeq(rows', 1, Len(rows)) = rows
                   /\ rows'[Len(rows')].product_id = putResult'.data.product_id
                   /\ rows'[Len(rows')].id = putResult'.value
           /\ \A i, j \in 1..Len(rows') :
                 rows'[i].product_id = rows'[j].product_id => i = j ]_vars

\* the positions of the two loops over queries and URLs
LoopPositions == {"auto_query", "manual_url"}

\* where a scraper is behind its loop
AfterLoop(position) ==
    IF position = "auto_query" THEN "auto_teardown" ELSE "manual_fallback"

\* the number of elements of the list the loop at `position` walks
ListLength(position) ==
    IF position = "auto_query" THEN NumSearchQueries ELSE NumShopUrls

\* C21: a pass of a loop that raised (navigation timeout, selector not
\* found, page-script error) adds no candidate and takes none away: the
\* candidates of the earlier passes are kept, the next element of the list
\* is taken when there is one, and behind the last element the scraper
\* goes on to what follows its loop and so to its teardown; a video
\* search that raised leaves the candidates as they are and goes on to
\* the teardown.
C21_FailedPassCountsZero ==
    [][ /\ (pc \in LoopPositions /\ visit'.outcome = "error")
           => /\ products' = products
              /\ IF episode < ListLength(pc)
                 THEN pc' = pc /\ episode' = episode + 1
                 ELSE pc' = AfterLoop(pc)
        /\ (pc = "manual_fallback" /\ visit'.outcome = "error" /\ visit'.scraper = "fallback")
           => products' = products /\ pc' = "manual_teardown" ]_vars

\* a pass of the URL loop raised, the candidates of an earlier pass are
\* there and the next URL is about to be tried
C21_Witness ==
    /\ pc = "manual_url"
    /\ visit.outcome = "error"
    /\ visit.scraper = "manual"
    /\ products # << >>
    /\ episode = visit.url + 1

\* C24: once the candidates a scraper has accumulated reach limit it
\* navigates to no further episode (no later element of its list, no video
\* search); while they are below limit and elements remain, the next
\* element is taken; the accumulated candidates never exceed limit.
C24_StopsAtLimit ==
    [][ /\ Len(products') <= limit
        /\ (pc \in LoopPositions /\ episode > 1) => Len(products) < limit
        /\ (pc = "manual_fallback" /\ fallbackRuns' # fallbackRuns)
              => Len(products) < limit
        /\ (pc \in LoopPositions /\ Len(products') < limit
              /\ episode < ListLength(pc))
              => pc' = pc /\ episode' = episode + 1 ]_vars

\* C25: within one call at most one browser session is open at a time (a
\* browser is launched only when none is open), and of the extra pages
\* opened to look into videos at most one is open at a time: each is
\* closed before the next is opened, also when its navigation fails.
C25_OneSessionOnePage ==
    [][ /\ browserLaunches' # browserLaunches => ~ browserOpen
        /\ videoPages' <= 1 ]_vars

C28_LoginWallProceeds ==
    visit.outcome = "login"
    => /\ visit.waited >= LoginWait
       /\ visit.waited <= LoginWait + NavigationWait
       /\ visit.scrolls >= ScrollCycles
       /\ visit.extractions >= 1
       /\ pc \in ScraperPositions

\* a shop URL showed the login wall, and the pass went on and extracted
\* candidates from the page behind the wait
C28_Witness ==
    /\ visit.outcome = "login"
    /\ visit.scraper = "manual"
    /\ visit.waited = LoginWait
    /\ products # << >>
    /\ manual_navigation_allowed

\* the call has returned or raised
Terminated == pc \in {"done", "raised"}

\* C27 as stated: every call terminates; each loop takes each element of
\* its list once, a pass makes at most 5 scroll cycles, and the login
\* pause and the navigation window, the only waits for the operator, end
\* after their fixed intervals.
C27_TerminatesWithFiveScrolls ==
    /\ [][ (pc \in LoopPositions /\ pc' = pc) => episode' = episode + 1 ]_vars
    /\ [](episode <= NumShopUrls)
    /\ [](visit.scrolls <= ScrollCycles)
    /\ [](visit.waited <= LoginWait + NavigationWait)
    /\ <>Terminated

\* C27, amended: every call terminates; each loop takes each element of
\* its list once, a pass makes at most 6 scroll cycles (5, and one more
\* when the operator has navigated during the navigation window), and
\* the waits for the operator in one pass take no longer than the login
\* pause and the navigation window together.
C27_Terminates ==
    /\ [][ (pc \in LoopPositions /\ pc' = pc) => episode' = episode + 1 ]_vars
    /\ [](episode <= NumShopUrls)
    /\ [](visit.scrolls <= ScrollCycles + 1)
    /\ [](visit.waited <= LoginWait + NavigationWait)
    /\ <>Terminated

\* the call has ended after both scrapers walked their whole lists and
\* the video search was made
C27_Witness ==
    /\ Terminated
    /\ autoRuns = 1
    /\ browserLaunches = 2
    /\ episode = NumShopUrls
    /\ fallbackRuns = 1

----------------------------------------------------------------------------
(* The page extractor                                                     *)

\* what a strategy of the returned call appended
FoundBy(s) ==
    IF outcomes[s] = "raised" THEN << >>
    ELSE StrategyProducts(s, snapshot, page_limit)

\* everything the strategies appended, in their order
FoundInOrder == FoundBy("json") \o FoundBy("dom") \o FoundBy("links")

IdsOf(s) == { s[i].product_id : i \in 1..Len(s) }

\* the ids that two strategies found
FoundByTwo ==
    { id \in IdsOf(FoundInOrder) :
         \E s, t \in Range(Strategies) :
            s # t /\ id \in IdsOf(FoundBy(s)) /\ id \in IdsOf(FoundBy(t)) }

\* the records of the output with this id
RecordsOf(id) == SelectSeq(unique_products, LAMBDA p : p.product_id = id)

\* where the id was found first
FirstIndex(id) ==
    CHOOSE i \in 1..Len(FoundInOrder) :
       /\ FoundInOrder[i].product_id = id
       /\ \A j \in 1..(i - 1) : FoundInOrder[j].product_id # id

\* the record of the earliest strategy that found the id
EarliestRecord(id) == FoundInOrder[FirstIndex(id)]

\* how many ids were found up to the first record of this one
RankOf(id) == Cardinality(IdsOf(SubSeq(FoundInOrder, 1, FirstIndex(id))))

IsPrefix(s, t) == Len(s) <= Len(t) /\ SubSeq(t, 1, Len(s)) = s

\* C23: a strategy that raises or matches nothing does not keep the
\* others from running on the page, and what the earlier strategies
\* appended is kept: every strategy is followed by the next, appends to
\* the list without changing its front, and the call returns the
\* products of the strategies that did not raise, without duplicates and
\* cut to limit.
C23_StrategiesIndependent ==
    /\ [][ /\ strategy = "json" => strategy' = "dom"
           /\ strategy = "dom" => strategy' = "links"
           /\ strategy = "links" => strategy' = "unique"
           /\ strategy \in Range(Strategies) => IsPrefix(page_products, page_products') ]_vars
    /\ [](strategy = "returned" =>
             /\ \A s \in Range(Strategies) : outcomes[s] # "none"
             /\ page_products = FoundInOrder
             /\ unique_products = Take(RemoveDuplicates(FoundInOrder, {}), page_limit)
             /\ (\A s \in Range(Strategies) : outcomes[s] # "raised")
                   => unique_products = ExtractProductsFromPage(snapshot, page_limit))

\* the cards raised between the JSON and the links, and the output holds
\* a product of the JSON and a product of the links
C23_Witness ==
    /\ strategy = "returned"
    /\ snapshot = PageCards
    /\ outcomes = [json |-> "found", dom |-> "raised", links |-> "found"]
    /\ unique_products = JsonToProduct(JsonA) \o ExtractFromLinkAndText(ShopLinkD)

----------------------------------------------------------------------------
(* The count texts                                                        *)

\* 1e3, 1e6, 1e9
SuffixValue(suffix) ==
    CASE suffix = "K" -> 1000 [] suffix = "M" -> 1000000 [] suffix = "B" -> 1000000000

\* the decimal number of the text times the value of its suffix
DecimalTimesSuffix(t) ==
    (t.whole * 10 + (IF t.frac = NoFraction THEN 0 ELSE t.frac))
       * (SuffixValue(t.suffix) \div 10)

\* C29: for every decimal number d with suffix K, M or B the sales count
\* extracted is d, integer and fractional part together, times 1e3, 1e6
\* or 1e9: "12.5K sold" in a link's text gives 12500, "1.2M" 1200000.
C29_SalesCountIsDecimalTimesSuffix ==
    (via # "none" /\ count_text.suffix # "") =>
       parsed_count = DecimalTimesSuffix(count_text)

----------------------------------------------------------------------------
(* The caller's callback                                                  *)

\* the candidates a step added to gathered
NewlyGathered == SubSeq(gathered', Len(gathered) + 1, Len(gathered'))

\* C30: an exception raised by on_product_found is isolated.  It does not
\* stop the acquisition: the call raises only where the demo generator
\* does without any callback.  It does not keep later candidates from
\* being reported: a pass over a search page reports every candidate it
\* extracted, and the demo generator every product it made.  And it does
\* not change what is returned: a pass adds to products exactly the
\* candidates that pass the filters, and the demo generator returns every
\* product it made, whatever the callback did.
C30_CallbackExceptionIsolated ==
    /\ [](pc = "raised" => DemoRaises(limit, filters))
    /\ [][ /\ (pc = "auto_query" /\ visit'.outcome # "error") =>
                 /\ products' = products
                       \o Tag(SelectSeq(NewlyGathered,
                                        LAMBDA p : SatisfiesFilters(filters, p)),
                              Len(products))
                 /\ callback = "given" => reported' = reported \o NewlyGathered
           /\ (pc = "demo" /\ pc' = "done") =>
                 /\ Len(result') = DemoCount(limit)
                 /\ callback = "given" =>
                       reported' = reported \o [ i \in 1..Len(result') |-> Untag(result'[i]) ]
         ]_vars

\* the callback raised during a search page pass that extracted a
\* candidate the filters reject and one they accept, and the call
\* returned the accepted one
C30_Witness ==
    /\ pc = "done"
    /\ cbRaised
    /\ demoRuns = 0
    /\ autoRuns = 1
    /\ browserLaunches = 1
    /\ Len(reported) = 2
    /\ Len(result) = 1
    /\ Untag(result[1]) = reported[2]

====
